---- MODULE Spec2Model ----
(***************************************************************************)
(* devmetrics: the stats merge engine (core.MergeStats,                    *)
(* core.mergeLanguageStats) and the streak calculator                      *)
(* (core.ComputeStreaks).                                                  *)
(*                                                                         *)
(* Go values that are references are modelled as references: a             *)
(* ContributionsPerDay map is an index into mapHeap (0 is the nil map), a  *)
(* Handles slice is (array, len, cap) over a backing array in arrHeap.     *)
(* Copying a DevStats struct copies these references, not what they point  *)
(* to.                                                                     *)
(*                                                                         *)
(* float64 percentages are modelled as exact rationals [n, d] in lowest    *)
(* terms; the rounding error of float64 arithmetic is abstracted away.     *)
(* time.Time keys are instants counted in ticks, TicksPerDay to a          *)
(* calendar day of the reference time zone.                                *)
(***************************************************************************)
EXTENDS Integers, Sequences, FiniteSets, TLC

\* ---------------------------------------------------------------- bounds
\* Largest per-day contribution count of an input map.
MaxCount == 1
\* Largest instant (in ticks) used as a key of an input map.
MaxTick == 1
\* Longest TopLanguages list of an input record.
MaxLangs == 2
\* Instants per calendar day.
TicksPerDay == 2
\* the last calendar day a key of a streak map may fall on (days from 0)
MaxDay == 6

\* ------------------------------------------------------------- rationals
RECURSIVE GCD(_, _)
GCD(a, b) == IF b = 0 THEN a ELSE GCD(b, a % b)

Abs(x) == IF x < 0 THEN -x ELSE x

\* The rational n/d (d # 0) in lowest terms with a positive denominator.
Rat(n, d) ==
    LET g == GCD(Abs(n), Abs(d))
        s == IF d < 0 THEN -1 ELSE 1
    IN [n |-> (s * n) \div g, d |-> (s * d) \div g]

Whole(k) == [n |-> k, d |-> 1]
RatAdd(p, q) == Rat(p.n * q.d + q.n * p.d, p.d * q.d)
RatGt(p, q) == p.n * q.d > q.n * p.d
\* p / total * 100.0
RatShare(p, total) == Rat(p.n * total.d * 100, p.d * total.n)

\* --------------------------------------------------- mergeLanguageStats
FallbackColor == "#586069"

\* m[k] = v on a Go map held as a function over its key set.
MapPut(m, k, v) == [x \in (DOMAIN m) \cup {k} |-> IF x = k THEN v ELSE m[x]]

EmptyMap == [x \in {} |-> 0]

\* for _, ls := range a { m[ls.Name] = ls }
RECURSIVE PutPrimary(_, _)
PutPrimary(m, a) ==
    IF a = <<>> THEN m
    ELSE PutPrimary(MapPut(m, Head(a).Name, Head(a)), Tail(a))

\* MergeExisting with the primary percentage kept, the secondary one dropped.
MergeExistingKeepsFirst(existing, ls) ==
    LET c1 == existing.Color
        c2 == IF c1 = "" THEN ls.Color ELSE c1
        color == IF c2 = "" THEN FallbackColor ELSE c2
    IN [Name |-> ls.Name, Percentage |-> existing.Percentage, Color |-> color]

\* MergeExisting with the secondary percentage replacing the primary one.
MergeExistingKeepsLast(existing, ls) ==
    LET c1 == existing.Color
        c2 == IF c1 = "" THEN ls.Color ELSE c1
        color == IF c2 = "" THEN FallbackColor ELSE c2
    IN [Name |-> ls.Name, Percentage |-> ls.Percentage, Color |-> color]

\* The entry stored for a language of b that m already holds.
MergeExisting(existing, ls) ==
    LET totalPct == RatAdd(existing.Percentage, ls.Percentage)
        c1 == existing.Color
        c2 == IF c1 = "" THEN ls.Color ELSE c1
        color == IF c2 = "" THEN FallbackColor ELSE c2
    IN [Name |-> ls.Name, Percentage |-> totalPct, Color |-> color]

\* The entry stored for a language of b that m does not hold yet.
AddNew(ls) ==
    LET color == IF ls.Color = "" THEN FallbackColor ELSE ls.Color
    IN [Name |-> ls.Name, Percentage |-> ls.Percentage, Color |-> color]

\* for _, ls := range b { ... }
RECURSIVE PutSecondary(_, _)
PutSecondary(m, b) ==
    IF b = <<>> THEN m
    ELSE LET ls == Head(b)
             e == IF ls.Name \in DOMAIN m THEN MergeExisting(m[ls.Name], ls)
                  ELSE AddNew(ls)
         IN PutSecondary(MapPut(m, ls.Name, e), Tail(b))

\* var total float64; for _, ls := range m { total += ls.Percentage }
RECURSIVE TotalPct(_)
TotalPct(m) ==
    IF DOMAIN m = {} THEN Whole(0)
    ELSE LET k == CHOOSE x \in DOMAIN m : TRUE
         IN RatAdd(m[k].Percentage,
                   TotalPct([x \in (DOMAIN m) \ {k} |-> m[x]]))

\* Renormalize left out: the summed percentages are returned as they are.
RenormalizeOmitted(m) == m

\* 0 / 0 in float64
NaN == [n |-> 0, d |-> 0]

\* Renormalize without its total > 0 guard.
RenormalizeUnguarded(m) ==
    LET total == TotalPct(m)
    IN [k \in DOMAIN m |->
           [m[k] EXCEPT !.Percentage =
               IF total.n = 0 THEN NaN ELSE RatShare(@, total)]]

\* if total > 0 { result[i].Percentage = result[i].Percentage / total * 100.0 }
Renormalize(m) ==
    LET total == TotalPct(m)
    IN IF RatGt(total, Whole(0))
       THEN [k \in DOMAIN m |->
                [m[k] EXCEPT !.Percentage = RatShare(@, total)]]
       ELSE m

\* SortedByPercentage with the sort left out: map iteration order stays.
SortedByPercentageOmitted(m) ==
    LET n == Cardinality(DOMAIN m)
        orders == {o \in [1..n -> DOMAIN m] :
                      \A i, j \in 1..n : i # j => o[i] # o[j]}
    IN {[i \in 1..n |-> m[o[i]]] : o \in orders}

\* The slices sort.Slice may leave: the entries of m were appended in map
\* iteration order (any order) and the sort is not stable, so every
\* arrangement in which no later entry has a greater percentage is possible.
SortedByPercentage(m) ==
    LET n == Cardinality(DOMAIN m)
        orders == {o \in [1..n -> DOMAIN m] :
                      /\ \A i, j \in 1..n : i # j => o[i] # o[j]
                      /\ \A i, j \in 1..n :
                            i < j => ~RatGt(m[o[j]].Percentage, m[o[i]].Percentage)}
    IN {[i \in 1..n |-> m[o[i]]] : o \in orders}

\* The possible returns (result, len(result)) of mergeLanguageStats(a, b).
mergeLanguageStats(a, b) ==
    IF Len(a) = 0 /\ Len(b) = 0
    THEN {[langs |-> <<>>, total |-> 0]}
    ELSE LET m == PutSecondary(PutPrimary(EmptyMap, a), b)
         IN {[langs |-> r, total |-> Len(r)] :
                r \in SortedByPercentage(Renormalize(m))}

\* -------------------------------------------------------- ComputeStreaks
\* time.Date(t.Year(), t.Month(), t.Day(), 0, 0, 0, 0, time.UTC)
DateOf(t) == (t \div TicksPerDay) * TicksPerDay
\* d.AddDate(0, 0, k) on a date
AddDays(d, k) == d + k * TicksPerDay

RECURSIVE SumCounts(_, _)
SumCounts(contribs, keys) ==
    IF keys = {} THEN 0
    ELSE LET t == CHOOSE x \in keys : TRUE
         IN contribs[t] + SumCounts(contribs, keys \ {t})

\* normalized[d] += c for every key; reading a missing key gives 0.
Normalized(contribs) ==
    [d \in {DateOf(t) : t \in DOMAIN contribs} |->
        SumCounts(contribs, {t \in DOMAIN contribs : DateOf(t) = d})]

At(normalized, d) == IF d \in DOMAIN normalized THEN normalized[d] ELSE 0

\* CurrentFrom with the walk starting the day before d.
RECURSIVE CurrentFromYesterday(_, _)
CurrentFromYesterday(normalized, d) ==
    IF At(normalized, AddDays(d, -1)) <= 0 THEN 0
    ELSE 1 + CurrentFromYesterday(normalized, AddDays(d, -1))

\* for d := todayDate; ; d = d.AddDate(0, 0, -1) { ... current++ }
RECURSIVE CurrentFrom(_, _)
CurrentFrom(normalized, d) ==
    IF At(normalized, d) <= 0 THEN 0
    ELSE 1 + CurrentFrom(normalized, AddDays(d, -1))

\* RunLength with the first day of the run not counted.
RECURSIVE RunLengthShort(_, _)
RunLengthShort(normalized, cur) ==
    IF At(normalized, AddDays(cur, 1)) > 0
    THEN 1 + RunLengthShort(normalized, AddDays(cur, 1))
    ELSE 0

\* for cur := d; normalized[cur] > 0; cur = cur.AddDate(0, 0, 1) { length++ }
RECURSIVE RunLength(_, _)
RunLength(normalized, cur) ==
    IF At(normalized, cur) > 0 THEN 1 + RunLength(normalized, AddDays(cur, 1))
    ELSE 0

RECURSIVE RunDays(_, _)
RunDays(normalized, cur) ==
    IF At(normalized, cur) > 0
    THEN {cur} \cup RunDays(normalized, AddDays(cur, 1))
    ELSE {}

\* LongestOver with longest = length for every run, longer or not.
RECURSIVE LongestOverKeepsLast(_, _, _, _)
LongestOverKeepsLast(normalized, dates, seen, longest) ==
    IF dates = {} THEN longest
    ELSE LET d == CHOOSE x \in dates : \A y \in dates : x <= y
             rest == dates \ {d}
         IN IF d \in seen \/ normalized[d] <= 0
               \/ At(normalized, AddDays(d, -1)) > 0
            THEN LongestOverKeepsLast(normalized, rest, seen, longest)
            ELSE LongestOverKeepsLast(normalized, rest,
                                      seen \cup RunDays(normalized, d),
                                      RunLength(normalized, d))

\* The loop over the sorted dates, with its seen set.
RECURSIVE LongestOver(_, _, _, _)
LongestOver(normalized, dates, seen, longest) ==
    IF dates = {} THEN longest
    ELSE LET d == CHOOSE x \in dates : \A y \in dates : x <= y
             rest == dates \ {d}
         IN IF d \in seen THEN LongestOver(normalized, rest, seen, longest)
            ELSE IF normalized[d] <= 0
                 THEN LongestOver(normalized, rest, seen, longest)
            ELSE IF At(normalized, AddDays(d, -1)) > 0
                 THEN LongestOver(normalized, rest, seen, longest)
            ELSE LET length == RunLength(normalized, d)
                 IN LongestOver(normalized, rest,
                                seen \cup RunDays(normalized, d),
                                IF length > longest THEN length ELSE longest)

\* contribs is the content of the map (the empty function for a nil map),
\* now the reading of time.Now().
ComputeStreaks(contribs, now) ==
    IF DOMAIN contribs = {} THEN [current |-> 0, longest |-> 0]
    ELSE LET normalized == Normalized(contribs)
         IN [current |-> CurrentFrom(normalized, DateOf(now)),
             longest |-> LongestOver(normalized, DOMAIN normalized, {}, 0)]

\* ------------------------------------------------------------ MergeStats
\* The strings held by a slice.
SliceVal(s, ah) == IF s.len = 0 THEN <<>> ELSE SubSeq(ah[s.arr], 1, s.len)

NilSlice == [arr |-> 0, len |-> 0, cap |-> 0]

\* AppendSlice skipping the strings s already holds.
AppendSliceDedup(s, elems, ah) ==
    LET old == SliceVal(s, ah)
        fresh == SelectSeq(elems, LAMBDA e : \A i \in 1..Len(old) : old[i] # e)
        need == s.len + Len(fresh)
    IN IF Len(fresh) = 0 THEN [slice |-> s, heap |-> ah]
       ELSE [slice |-> [arr |-> Len(ah) + 1, len |-> need, cap |-> need],
             heap |-> Append(ah, old \o fresh)]

\* append(s, elems...): writes behind s in its backing array when the
\* capacity suffices, moves to a fresh array otherwise.
AppendSlice(s, elems, ah) ==
    LET need == s.len + Len(elems)
    IN IF Len(elems) = 0 THEN [slice |-> s, heap |-> ah]
       ELSE IF need <= s.cap
       THEN [slice |-> [s EXCEPT !.len = need],
             heap |-> [ah EXCEPT ![s.arr] =
                          [i \in 1..s.cap |->
                              IF i > s.len /\ i <= need THEN elems[i - s.len]
                              ELSE @[i]]]]
       ELSE LET newcap == IF need > 2 * s.cap THEN need ELSE 2 * s.cap
                old == SliceVal(s, ah)
            IN [slice |-> [arr |-> Len(ah) + 1, len |-> need, cap |-> newcap],
                heap |-> Append(ah, [i \in 1..newcap |->
                                        IF i <= s.len THEN old[i]
                                        ELSE IF i <= need THEN elems[i - s.len]
                                        ELSE ""])]

\* SumTotals with Following taken from the secondary's Followers.
SumTotalsMixed(t, u) ==
    [t EXCEPT !.PublicRepos = @ + u.PublicRepos,
              !.PrivateRepos = @ + u.PrivateRepos,
              !.Stars = @ + u.Stars,
              !.Followers = @ + u.Followers,
              !.Following = @ + u.Followers,
              !.ContributedRepos = @ + u.ContributedRepos,
              !.Commits = @ + u.Commits]

\* merged.Totals.X += secondary.Totals.X, for the seven summed counters.
SumTotals(t, u) ==
    [t EXCEPT !.PublicRepos = @ + u.PublicRepos,
              !.PrivateRepos = @ + u.PrivateRepos,
              !.Stars = @ + u.Stars,
              !.Followers = @ + u.Followers,
              !.Following = @ + u.Following,
              !.ContributedRepos = @ + u.ContributedRepos,
              !.Commits = @ + u.Commits]

SumIssues(i, j) == [Open |-> i.Open + j.Open, Closed |-> i.Closed + j.Closed]

SumPullRequests(p, q) ==
    [Open |-> p.Open + q.Open, Merged |-> p.Merged + q.Merged,
     Closed |-> p.Closed + q.Closed]

\* MergeContributions assigning the secondary's count instead of adding it.
MergeContributionsOverwrite(mref, sref, mh) ==
    IF sref # 0
    THEN LET r == IF mref = 0 THEN Len(mh) + 1 ELSE mref
             mh1 == IF mref = 0 THEN Append(mh, EmptyMap) ELSE mh
             sec == mh1[sref]
             cur == mh1[r]
         IN [ref |-> r,
             heap |-> [mh1 EXCEPT ![r] =
                 [d \in (DOMAIN cur) \cup (DOMAIN sec) |->
                     IF d \in DOMAIN sec THEN sec[d] ELSE cur[d]]]]
    ELSE [ref |-> mref, heap |-> mh]

\* MergeContributions making the merged map whether or not the secondary
\* has one.
MergeContributionsAlwaysMake(mref, sref, mh) ==
    LET r == IF mref = 0 THEN Len(mh) + 1 ELSE mref
        mh1 == IF mref = 0 THEN Append(mh, EmptyMap) ELSE mh
        sec == IF sref # 0 THEN mh1[sref] ELSE EmptyMap
        cur == mh1[r]
    IN [ref |-> r,
        heap |-> [mh1 EXCEPT ![r] =
            [d \in (DOMAIN cur) \cup (DOMAIN sec) |->
                (IF d \in DOMAIN cur THEN cur[d] ELSE 0)
                + (IF d \in DOMAIN sec THEN sec[d] ELSE 0)]]]

\* The ContributionsPerDay block: mref is merged's map (the very map primary
\* refers to), sref secondary's; 0 is nil.
MergeContributions(mref, sref, mh) ==
    IF sref # 0
    THEN LET r == IF mref = 0 THEN Len(mh) + 1 ELSE mref
             mh1 == IF mref = 0 THEN Append(mh, EmptyMap) ELSE mh
             sec == mh1[sref]
             cur == mh1[r]
         IN [ref |-> r,
             heap |-> [mh1 EXCEPT ![r] =
                 [d \in (DOMAIN cur) \cup (DOMAIN sec) |->
                     (IF d \in DOMAIN cur THEN cur[d] ELSE 0)
                     + (IF d \in DOMAIN sec THEN sec[d] ELSE 0)]]]
    ELSE [ref |-> mref, heap |-> mh]

\* SetLanguages leaving the language count merged carries.
SetLanguagesKeepsCount(merged, secondary, lr) ==
    [merged EXCEPT !.Activity.TopLanguages = lr.langs]

\* SetLanguages adding up the two inputs' language counts.
SetLanguagesSummed(merged, secondary, lr) ==
    [merged EXCEPT !.Activity.TopLanguages = lr.langs,
                   !.Totals.TotalLanguages = @ + secondary.Totals.TotalLanguages]

\* merged.Activity.TopLanguages = langs; merged.Totals.TotalLanguages = totalLangs
SetLanguages(merged, secondary, lr) ==
    [merged EXCEPT !.Activity.TopLanguages = lr.langs,
                   !.Totals.TotalLanguages = lr.total]

\* SetStreaks adding the computed streaks to the ones merged carries.
SetStreaksAdded(merged, st) ==
    [merged EXCEPT !.Totals.CurrentStreak = @ + st.current,
                   !.Totals.LongestStreak = @ + st.longest]

\* merged.Totals.CurrentStreak = current; merged.Totals.LongestStreak = longest
SetStreaks(merged, st) ==
    [merged EXCEPT !.Totals.CurrentStreak = st.current,
                   !.Totals.LongestStreak = st.longest]

MapVal(ref, mh) == IF ref = 0 THEN EmptyMap ELSE mh[ref]

\* MergeStats(primary, secondary) on the heaps mh (maps) and ah (arrays),
\* with now the reading of time.Now() and lr the return of
\* mergeLanguageStats it gets.  Yields the returned struct and the heaps.
MergeStats(primary, secondary, mh, ah, now, lr) ==
    LET hs == AppendSlice(primary.Identity.Handles,
                          SliceVal(secondary.Identity.Handles, ah), ah)
        cs == MergeContributions(primary.Activity.ContributionsPerDay,
                                 secondary.Activity.ContributionsPerDay, mh)
        m1 == [primary EXCEPT
                 !.Identity.Handles = hs.slice,
                 !.Totals = SumTotals(@, secondary.Totals),
                 !.Activity.Issues = SumIssues(@, secondary.Activity.Issues),
                 !.Activity.PullRequests =
                     SumPullRequests(@, secondary.Activity.PullRequests),
                 !.Activity.ContributionsPerDay = cs.ref]
        m2 == SetLanguages(m1, secondary, lr)
        st == ComputeStreaks(MapVal(cs.ref, cs.heap), now)
    IN [rec |-> SetStreaks(m2, st), mh |-> cs.heap, ah |-> hs.heap]

\* The language results MergeStats may get for these two records.
LanguageReturns(primary, secondary) ==
    mergeLanguageStats(primary.Activity.TopLanguages,
                       secondary.Activity.TopLanguages)

\* ---------------------------------------------------------------- inputs
\* A DevStats by value: Handles is the list of strings and
\* ContributionsPerDay is [present, m], present = FALSE for the nil map.
NilContribs == [present |-> FALSE, m |-> EmptyMap]

\* DevStats{}
ZeroValue ==
    [Identity |-> [Name |-> "", Username |-> "", Avatar |-> "", Handles |-> <<>>],
     Totals |-> [PublicRepos |-> 0, PrivateRepos |-> 0, Stars |-> 0,
                 Followers |-> 0, Following |-> 0, ContributedRepos |-> 0,
                 Commits |-> 0, CommitsThisWeek |-> 0, JoinedAgo |-> "",
                 TotalLanguages |-> 0, CurrentStreak |-> 0, LongestStreak |-> 0],
     Activity |-> [ContributionsPerDay |-> NilContribs,
                   TopLanguages |-> <<>>,
                   Issues |-> [Open |-> 0, Closed |-> 0],
                   PullRequests |-> [Open |-> 0, Merged |-> 0, Closed |-> 0]]]

\* A record as the GitHub adapter fills it.
GitHubValue ==
    [Identity |-> [Name |-> "Ada", Username |-> "ada", Avatar |-> "data:ada",
                   Handles |-> <<"github: ada">>],
     Totals |-> [PublicRepos |-> 1, PrivateRepos |-> 2, Stars |-> 3,
                 Followers |-> 4, Following |-> 5, ContributedRepos |-> 6,
                 Commits |-> 7, CommitsThisWeek |-> 8, JoinedAgo |-> "3 years ago",
                 TotalLanguages |-> 0, CurrentStreak |-> 4, LongestStreak |-> 9],
     Activity |-> [ContributionsPerDay |-> NilContribs,
                   TopLanguages |-> <<>>,
                   Issues |-> [Open |-> 10, Closed |-> 11],
                   PullRequests |-> [Open |-> 12, Merged |-> 13, Closed |-> 14]]]

\* A record as the GitLab adapter fills it.
GitLabValue ==
    [Identity |-> [Name |-> "A. Lovelace", Username |-> "alove", Avatar |-> "",
                   Handles |-> <<"gitlab: alove">>],
     Totals |-> [PublicRepos |-> 20, PrivateRepos |-> 30, Stars |-> 40,
                 Followers |-> 0, Following |-> 0, ContributedRepos |-> 0,
                 Commits |-> 0, CommitsThisWeek |-> 0, JoinedAgo |-> "",
                 TotalLanguages |-> 0, CurrentStreak |-> 0, LongestStreak |-> 0],
     Activity |-> [ContributionsPerDay |-> NilContribs,
                   TopLanguages |-> <<>>,
                   Issues |-> [Open |-> 0, Closed |-> 0],
                   PullRequests |-> [Open |-> 0, Merged |-> 0, Closed |-> 0]]]

LangNames == {"Go", "Rust"}
ColorOf(name) == IF name = "Go" THEN "#00ADD8" ELSE "#dea584"
PctValues == {0, 25, 50, 75, 100}

LangEntries ==
    {[Name |-> nm, Percentage |-> Whole(p), Color |-> c] :
        nm \in LangNames, p \in PctValues, c \in {"", "#00ADD8", "#dea584"}}

RECURSIVE SumPercentages(_)
SumPercentages(l) ==
    IF l = <<>> THEN Whole(0)
    ELSE RatAdd(Head(l).Percentage, SumPercentages(Tail(l)))

DistinctNames(l) == \A i, j \in 1..Len(l) : i # j => l[i].Name # l[j].Name
OwnColors(l) == \A i \in 1..Len(l) : l[i].Color \in {"", ColorOf(l[i].Name)}
Descending(l) ==
    \A i, j \in 1..Len(l) : i < j => ~RatGt(l[j].Percentage, l[i].Percentage)

ListsOver(entries) ==
    UNION {[1..n -> entries] : n \in 0..MaxLangs}

\* TopLanguages lists of the data model: language names are keys, and the
\* percentages of a non-empty list sum to 100.
LangLists ==
    {l \in ListsOver(LangEntries) :
        /\ DistinctNames(l) /\ OwnColors(l) /\ Descending(l)
        /\ (l # <<>> => SumPercentages(l) = Whole(100))}

\* Lists outside the data model: every percentage is 0.
ZeroLangLists ==
    {l \in ListsOver({e \in LangEntries : e.Percentage = Whole(0)}) :
        DistinctNames(l) /\ OwnColors(l)}

\* Present ContributionsPerDay maps over the instants 0..MaxTick.
ContribMaps ==
    UNION {[keys -> 0..MaxCount] : keys \in SUBSET (0..MaxTick)}

ContribInputs ==
    {NilContribs} \cup {[present |-> TRUE, m |-> f] : f \in ContribMaps}

\* What GitLab's Fetch returns for a user with one language: Fetch drops the
\* count computeLanguages returns, so TotalLanguages stays 0.
GitLabLangsValue ==
    [GitLabValue EXCEPT !.Activity.TopLanguages =
        <<[Name |-> "Go", Percentage |-> Whole(100), Color |-> ""]>>]

WithLangs(v, l) ==
    [v EXCEPT !.Activity.TopLanguages = l, !.Totals.TotalLanguages = Len(l)]
WithContribs(v, c) == [v EXCEPT !.Activity.ContributionsPerDay = c]

\* The input records: each departs from the GitHub record in one respect.
InputValues ==
    {ZeroValue, GitHubValue, GitLabValue, GitLabLangsValue}
    \cup {WithLangs(GitHubValue, l) : l \in LangLists}
    \cup {WithContribs(GitHubValue, c) : c \in ContribInputs}

RawInputValues ==
    {WithLangs(GitHubValue, l) : l \in ZeroLangLists}

\* The records a second merge step folds in.
ThirdValues ==
    {ZeroValue,
     WithLangs(GitLabValue,
         <<[Name |-> "C", Percentage |-> Whole(100), Color |-> ""]>>),
     WithContribs(GitLabValue,
         [present |-> TRUE, m |-> [t \in {0, MaxTick} |-> 1]])}

\* Readings of time.Now(): the day of the latest key, or the day after.
Nows == {MaxTick, MaxTick + TicksPerDay}

\* The maps ComputeStreaks is called on: at most MaxKeys keys, each the
\* first or the last instant of one of the days 0..MaxDay, with negative,
\* zero and positive counts.
StreakTicks ==
    {AddDays(0, k) + i : k \in 0..MaxDay, i \in {0, TicksPerDay - 1}}
StreakCounts == (0 - 1)..MaxCount
MaxKeys == MaxDay \div 2

RECURSIVE KeySets(_)
KeySets(n) ==
    IF n = 0 THEN {{}}
    ELSE LET smaller == KeySets(n - 1)
         IN smaller \cup {k \cup {t} : k \in smaller, t \in StreakTicks}

StreakMaps == UNION {[keys -> StreakCounts] : keys \in KeySets(MaxKeys)}

\* Readings of time.Now() for ComputeStreaks: the first and the last instant
\* of the day before MaxDay, so that the keys of day MaxDay lie in the future.
Today == AddDays(0, MaxDay - 1)
StreakNows == {Today, Today + TicksPerDay - 1}

\* What the three adapters hand to main.  No Fetch fills the streak fields,
\* Commits or ContributionsPerDay.
GitHubFetched ==
    [GitHubValue EXCEPT !.Totals.Commits = 0, !.Totals.CommitsThisWeek = 0,
                        !.Totals.CurrentStreak = 0, !.Totals.LongestStreak = 0]

GitHubRecords ==
    {GitHubFetched,
     WithLangs(GitHubFetched,
         <<[Name |-> "Rust", Percentage |-> Whole(75), Color |-> ColorOf("Rust")],
           [Name |-> "Go", Percentage |-> Whole(25), Color |-> ColorOf("Go")]>>)}

\* Bitbucket's Fetch fills the identity and the two repository counts.
BitbucketValue ==
    [ZeroValue EXCEPT !.Identity = [Name |-> "Ada B.", Username |-> "adab",
                                    Avatar |-> "",
                                    Handles |-> <<"bitbucket: team">>],
                      !.Totals.PublicRepos = 50, !.Totals.PrivateRepos = 60]

BitbucketRecords == {BitbucketValue}

GitLabRecords == {GitLabValue, GitLabLangsValue}

\* The environment of a run: the -user flag and the DEV_METRICS_* variables,
\* each empty or set.
Settings == {"", "set"}
Environments ==
    [user : Settings, bbEmail : Settings, bbToken : Settings,
     bbWorkspace : Settings, glUser : Settings, glToken : Settings]

\* ------------------------------------------------------------------ heap
\* The struct for the value v, its slice and map freshly allocated.
Alloc(v, mh, ah) ==
    LET hs == v.Identity.Handles
        c == v.Activity.ContributionsPerDay
        slice == IF hs = <<>> THEN NilSlice
                 ELSE [arr |-> Len(ah) + 1, len |-> Len(hs), cap |-> Len(hs)]
        ref == IF c.present THEN Len(mh) + 1 ELSE 0
    IN [rec |-> [v EXCEPT !.Identity.Handles = slice,
                          !.Activity.ContributionsPerDay = ref],
        ah |-> IF hs = <<>> THEN ah ELSE Append(ah, hs),
        mh |-> IF c.present THEN Append(mh, c.m) ELSE mh]

\* What the caller reads through the struct rec.
Deep(rec, mh, ah) ==
    [rec EXCEPT !.Identity.Handles = SliceVal(@, ah),
                !.Activity.ContributionsPerDay =
                    [present |-> @ # 0, m |-> MapVal(@, mh)]]

\* --------------------------------------------------------- state machine
VARIABLES
    req,        \* Fetch: the provider, the handle and the API's answers
    ret,        \* Fetch: what the call returned
    env,        \* main: the -user flag and the environment variables
    log,        \* main: the messages logged, as <<level, subject>>
    fetched,    \* main: the records the successful Fetch calls returned
    calls,      \* main: the MergeStats calls made, [name, now]
    rendered,   \* main: <<record>> once RenderSVG returned the SVG of record
    file,       \* main: the output file
    exit,       \* main: -1 while running, then the exit status
    printed,    \* main: the provider list of the final message
    contribs,   \* the map ComputeStreaks is called on
    streak,     \* what ComputeStreaks returned: [current, longest]
    mapHeap,    \* the ContributionsPerDay maps, by reference
    arrHeap,    \* the backing arrays of the Handles slices, by reference
    primary,    \* the caller's first record
    secondary,  \* the caller's second record
    stats,      \* the record the last MergeStats call returned
    pc,         \* where the caller stands, e.g. "start", "merged", "render"
    now,        \* the time.Now() reading of the last call
    orig,       \* primary and secondary by value, as constructed
    pre,        \* the two arguments of the last call by value, before it
    first       \* the return of the first call by value, as it returned

mergeVars == <<mapHeap, arrHeap, primary, secondary, stats, orig, pre, first>>
streakVars == <<contribs, streak>>
mainVars == <<env, log, fetched, calls, rendered, file, exit, printed>>
fetchVars == <<req, ret>>
vars == <<mergeVars, streakVars, mainVars, fetchVars, pc, now>>

NoReturn == [called |-> FALSE, err |-> "", zero |-> TRUE, made |-> {},
             ignored |-> {}]

\* No Fetch call of its own is under way.
FetchIdle ==
    /\ req = [provider |-> "", handleKnown |-> TRUE, outcome |-> <<>>]
    /\ ret = NoReturn

NoFile == [state |-> "absent", of |-> <<>>]

\* No run of main is under way.
MainIdle ==
    /\ env = [k \in {"user", "bbEmail", "bbToken", "bbWorkspace", "glUser",
                     "glToken"} |-> ""]
    /\ log = <<>> /\ fetched = <<>> /\ calls = <<>> /\ rendered = <<>>
    /\ file = NoFile /\ exit = 0 - 1 /\ printed = <<>>

\* No ComputeStreaks call of its own is under way.
StreakIdle ==
    /\ contribs = EmptyMap
    /\ streak = [current |-> 0, longest |-> 0]

InitWith(values) ==
    \E p \in values, s \in values :
        LET ap == Alloc(p, <<>>, <<>>)
            as == Alloc(s, ap.mh, ap.ah)
        IN /\ primary = ap.rec
           /\ secondary = as.rec
           /\ mapHeap = as.mh
           /\ arrHeap = as.ah
           /\ orig = [primary |-> p, secondary |-> s]
           /\ pre = [primary |-> p, secondary |-> s]
           /\ stats = Alloc(ZeroValue, <<>>, <<>>).rec
           /\ first = ZeroValue
           /\ pc = "start"
           /\ now = 0
           /\ StreakIdle
           /\ MainIdle
           /\ FetchIdle

Init == InitWith(InputValues)

InitRaw == InitWith(RawInputValues)

\* stats = MergeStats(a, b) at instant t, on the current heaps.
Call(a, b, mh, ah, t, lr) ==
    LET r == MergeStats(a, b, mh, ah, t, lr)
    IN /\ stats' = r.rec
       /\ mapHeap' = r.mh
       /\ arrHeap' = r.ah
       /\ now' = t
       /\ pre' = [primary |-> Deep(a, mh, ah), secondary |-> Deep(b, mh, ah)]

\* stats = core.MergeStats(primary, secondary)
MergeFirst ==
    /\ pc = "start"
    /\ \E t \in Nows, lr \in LanguageReturns(primary, secondary) :
          /\ Call(primary, secondary, mapHeap, arrHeap, t, lr)
          /\ first' = Deep(stats', mapHeap', arrHeap')
    /\ pc' = "merged"
    /\ UNCHANGED <<primary, secondary, orig, streakVars, mainVars, fetchVars>>

\* stats = core.MergeStats(stats, third): the next step of the pairwise fold.
Fold ==
    /\ pc = "merged"
    /\ \E v \in ThirdValues, t \in Nows :
          LET a3 == Alloc(v, mapHeap, arrHeap)
          IN \E lr \in LanguageReturns(stats, a3.rec) :
                Call(stats, a3.rec, a3.mh, a3.ah, t, lr)
    /\ pc' = "folded"
    /\ UNCHANGED <<primary, secondary, orig, first, streakVars, mainVars, fetchVars>>

\* core.MergeStats(primary, secondary) called once more on the same records.
Again ==
    /\ pc = "merged"
    /\ \E t \in Nows, lr \in LanguageReturns(primary, secondary) :
          Call(primary, secondary, mapHeap, arrHeap, t, lr)
    /\ pc' = "again"
    /\ UNCHANGED <<primary, secondary, orig, first, streakVars, mainVars, fetchVars>>

\* core.MergeStats(b, a) on fresh copies b, a of the two records as they
\* were before the first call, at the instant of the first call.
Swap ==
    /\ pc = "merged"
    /\ LET ab == Alloc(orig.secondary, mapHeap, arrHeap)
           aa == Alloc(orig.primary, ab.mh, ab.ah)
       IN \E lr \in LanguageReturns(ab.rec, aa.rec) :
             Call(ab.rec, aa.rec, aa.mh, aa.ah, now, lr)
    /\ pc' = "swapped"
    /\ UNCHANGED <<primary, secondary, orig, first, streakVars, mainVars, fetchVars>>

Next == MergeFirst \/ Fold \/ Again \/ Swap

Spec == Init /\ [][Next]_vars

SpecRaw == InitRaw /\ [][Next]_vars

\* ----------------------------------------- ComputeStreaks on its own
\* No MergeStats call is under way.
MergeIdle ==
    /\ mapHeap = <<>> /\ arrHeap = <<>>
    /\ primary = Alloc(ZeroValue, <<>>, <<>>).rec
    /\ secondary = primary /\ stats = primary
    /\ orig = [primary |-> ZeroValue, secondary |-> ZeroValue]
    /\ pre = orig
    /\ first = ZeroValue

InitStreak ==
    /\ contribs \in StreakMaps
    /\ now \in StreakNows
    /\ streak = [current |-> 0, longest |-> 0]
    /\ pc = "start"
    /\ MergeIdle
    /\ MainIdle
    /\ FetchIdle

\* current, longest := ComputeStreaks(contribs)
CallComputeStreaks ==
    /\ pc = "start"
    /\ streak' = ComputeStreaks(contribs, now)
    /\ pc' = "computed"
    /\ UNCHANGED <<contribs, now, mergeVars, mainVars, fetchVars>>

NextStreak == CallComputeStreaks

SpecStreak == InitStreak /\ [][NextStreak]_vars

\* ------------------------------------------------------------------ main
\* primary stands for githubStats, secondary for bbStats and then glStats.
InitMain ==
    /\ env \in Environments
    /\ log = <<>> /\ fetched = <<>> /\ calls = <<>> /\ rendered = <<>>
    /\ file = NoFile /\ exit = 0 - 1 /\ printed = <<>>
    /\ pc = "flags"
    /\ now = 0
    /\ MergeIdle
    /\ StreakIdle
    /\ FetchIdle

\* log.Fatal / log.Fatalf: the message, then os.Exit(1).
Fatal(subject) ==
    /\ log' = Append(log, <<"fatal", subject>>)
    /\ exit' = 1
    /\ pc' = "exited"

\* if user == "" { log.Fatal("missing required flag: -user") }
ParseFlags ==
    /\ pc = "flags"
    /\ IF env.user = "" THEN Fatal("-user")
       ELSE pc' = "github" /\ UNCHANGED <<log, exit>>
    /\ UNCHANGED <<env, fetched, calls, rendered, file, printed, now,
                   mergeVars, streakVars, fetchVars>>

\* githubStats, err := githubProvider.Fetch(ctx, user); stats := githubStats
FetchGitHub ==
    /\ pc = "github"
    /\ \/ /\ Fatal("GitHub")
          /\ UNCHANGED <<fetched, mergeVars>>
       \/ \E v \in GitHubRecords :
             LET a == Alloc(v, mapHeap, arrHeap)
             IN /\ primary' = a.rec /\ stats' = a.rec
                /\ mapHeap' = a.mh /\ arrHeap' = a.ah
                /\ fetched' = Append(fetched, [name |-> "GitHub", rec |-> v])
                /\ pc' = "bitbucket"
                /\ UNCHANGED <<log, exit, secondary, orig, pre, first>>
    /\ UNCHANGED <<env, calls, rendered, file, printed, now, streakVars, fetchVars>>

\* A secondary Fetch returned an error with the warning made fatal.
SecondaryFailedFatal(name, next) ==
    /\ Fatal(name)
    /\ UNCHANGED <<fetched, calls, mergeVars, now>>

\* log.Printf("warning: provider %s failed: %v", ...): the run goes on.
SecondaryFailed(name, next) ==
    /\ log' = Append(log, <<"warning", name>>)
    /\ pc' = next
    /\ UNCHANGED <<exit, fetched, calls, mergeVars, now>>

\* log.Printf("info: ... skipping ... provider")
Skipped(name, next) ==
    /\ log' = Append(log, <<"info", name>>)
    /\ pc' = next
    /\ UNCHANGED <<exit, fetched, calls, mergeVars, now>>

\* The Fetch of the secondary provider name returned v without error:
\* stats = core.MergeStats(a, v).
Merged(name, a, v, next) ==
    LET s == Alloc(v, mapHeap, arrHeap)
    IN \E t \in Nows, lr \in LanguageReturns(a, s.rec) :
          /\ Call(a, s.rec, s.mh, s.ah, t, lr)
          /\ secondary' = s.rec
          /\ fetched' = Append(fetched, [name |-> name, rec |-> v])
          /\ calls' = Append(calls, [name |-> name, now |-> t])
          /\ pc' = next
          /\ UNCHANGED <<log, exit, primary, orig, first>>

BitbucketConfigured ==
    env.bbEmail # "" /\ env.bbToken # "" /\ env.bbWorkspace # ""

\* The first argument of the MergeStats call for Bitbucket: githubStats.
BitbucketPrimary(githubStats, st) == githubStats

\* The Bitbucket block of main.
FetchBitbucket ==
    /\ pc = "bitbucket"
    /\ IF BitbucketConfigured
       THEN \/ SecondaryFailed("Bitbucket", "gitlab")
            \/ \E v \in BitbucketRecords :
                  Merged("Bitbucket", BitbucketPrimary(primary, stats), v,
                         "gitlab")
       ELSE Skipped("Bitbucket", "gitlab")
    /\ UNCHANGED <<env, rendered, file, printed, streakVars, fetchVars>>

\* The GitLab merge taking githubStats instead of the running stats.
GitLabPrimaryGitHub(githubStats, st) == githubStats

\* The first argument of the MergeStats call for GitLab: stats.
GitLabPrimary(githubStats, st) == st

\* The GitLab block of main.
FetchGitLab ==
    /\ pc = "gitlab"
    /\ IF env.glUser # ""
       THEN \/ SecondaryFailed("GitLab", "render")
            \/ \E v \in GitLabRecords :
                  Merged("GitLab", GitLabPrimary(primary, stats), v, "render")
       ELSE Skipped("GitLab", "render")
    /\ UNCHANGED <<env, rendered, file, printed, streakVars, fetchVars>>

\* svg, err := render.RenderSVG(stats)
Render ==
    /\ pc = "render"
    /\ \/ Fatal("render") /\ UNCHANGED rendered
       \/ /\ rendered' = <<Deep(stats, mapHeap, arrHeap)>>
          /\ pc' = "write"
          /\ UNCHANGED <<log, exit>>
    /\ UNCHANGED <<env, fetched, calls, file, printed, now, mergeVars,
                   streakVars, fetchVars>>

\* os.WriteFile(output, svg, 0o644); a failed write may have created or
\* truncated the file.
WriteFile ==
    /\ pc = "write"
    /\ \/ /\ Fatal("write")
          /\ file' \in {NoFile, [state |-> "partial", of |-> <<>>]}
       \/ /\ file' = [state |-> "written", of |-> rendered]
          /\ pc' = "print"
          /\ UNCHANGED <<log, exit>>
    /\ UNCHANGED <<env, fetched, calls, rendered, printed, now, mergeVars,
                   streakVars, fetchVars>>

\* providersUsed and the final message; main returns.
providersUsed ==
    <<"GitHub">>
    \o (IF BitbucketConfigured THEN <<"Bitbucket">> ELSE <<>>)
    \o (IF env.glUser # "" /\ env.glToken # "" THEN <<"GitLab">> ELSE <<>>)

PrintProviders ==
    /\ pc = "print"
    /\ printed' = providersUsed
    /\ exit' = 0
    /\ pc' = "exited"
    /\ UNCHANGED <<env, log, fetched, calls, rendered, file, now, mergeVars,
                   streakVars, fetchVars>>

NextMain ==
    \/ ParseFlags \/ FetchGitHub \/ FetchBitbucket \/ FetchGitLab
    \/ Render \/ WriteFile \/ PrintProviders

SpecMain == InitMain /\ [][NextMain]_vars

\* ----------------------------------------------------- Provider.Fetch
\* How a request of a Fetch ends: a 2xx answer, no answer (client.Do
\* fails), or an answer with another status; the account request of GitHub
\* and GitLab may also say that there is no such account.
Outcomes == {"ok", "unreachable", "status"}
UserOutcomes(known) ==
    IF known THEN Outcomes ELSE {"unreachable", "status", "notfound"}

GitHubRequests == {"user", "repos", "contributed", "issues", "prs", "avatar"}
GitLabRequests == {"user", "projects", "languages"}
BitbucketRequests == {"user", "repos"}

\* The calls: a provider, whether the handle names an account there, and
\* an outcome for each kind of request.  Bitbucket's account request asks
\* for the authenticated user, so the handle has no part in its outcome.
FetchCalls ==
    {[provider |-> "GitHub", handleKnown |-> k, outcome |-> o] :
        k \in BOOLEAN, o \in [GitHubRequests -> Outcomes \cup {"notfound"}]}
    \cup {[provider |-> "GitLab", handleKnown |-> k, outcome |-> o] :
        k \in BOOLEAN, o \in [GitLabRequests -> Outcomes \cup {"notfound"}]}
    \cup {[provider |-> "Bitbucket", handleKnown |-> k, outcome |-> o] :
        k \in BOOLEAN, o \in [BitbucketRequests -> Outcomes]}

WellFormedCall(c) ==
    /\ \A r \in DOMAIN c.outcome \ {"user"} : c.outcome[r] \in Outcomes
    /\ c.provider # "Bitbucket" => c.outcome["user"] \in UserOutcomes(c.handleKnown)

\* return core.DevStats{}, fmt.Errorf(...)
FetchFailed(msg, made) ==
    [called |-> TRUE, err |-> msg, zero |-> TRUE, made |-> made, ignored |-> {}]

\* return stats, nil, the failed requests among aux having been passed over.
FetchDone(o, made, aux) ==
    [called |-> TRUE, err |-> "", zero |-> FALSE, made |-> made,
     ignored |-> {r \in aux : o[r] # "ok"}]

\* Fetch of the GitHub provider failing for any failed request.
GitHubFetchStrict(o) ==
    IF o["user"] # "ok" THEN FetchFailed("github: fetch user", {"user"})
    ELSE IF \E r \in GitHubRequests : o[r] # "ok"
         THEN FetchFailed("github: fetch", GitHubRequests)
         ELSE FetchDone(o, GitHubRequests, {})

\* Fetch of the GitHub provider.
GitHubFetch(o) ==
    IF o["user"] # "ok" THEN FetchFailed("github: fetch user", {"user"})
    ELSE IF o["repos"] # "ok"
         THEN FetchFailed("github: fetch repos", {"user", "repos"})
         ELSE FetchDone(o, GitHubRequests,
                        {"contributed", "issues", "prs", "avatar"})

\* Fetch of the GitLab provider.
GitLabFetch(o) ==
    IF o["user"] # "ok" THEN FetchFailed("gitlab: fetch user", {"user"})
    ELSE IF o["projects"] # "ok"
         THEN FetchFailed("gitlab: fetch projects", {"user", "projects"})
         ELSE FetchDone(o, GitLabRequests, {"languages"})

\* Fetch of the Bitbucket provider.
BitbucketFetch(o) ==
    IF o["user"] # "ok" THEN FetchFailed("bitbucket: fetch user", {"user"})
    ELSE IF o["repos"] # "ok"
         THEN FetchFailed("bitbucket: fetch repos", {"user", "repos"})
         ELSE FetchDone(o, BitbucketRequests, {})

InitFetch ==
    /\ req \in {c \in FetchCalls : WellFormedCall(c)}
    /\ ret = NoReturn
    /\ pc = "fetch"
    /\ now = 0
    /\ MergeIdle
    /\ StreakIdle
    /\ MainIdle

Returned(r) ==
    /\ ret' = r
    /\ pc' = "returned"
    /\ UNCHANGED <<req, now, mergeVars, streakVars, mainVars>>

CallGitHubFetch ==
    pc = "fetch" /\ req.provider = "GitHub" /\ Returned(GitHubFetch(req.outcome))

CallGitLabFetch ==
    pc = "fetch" /\ req.provider = "GitLab" /\ Returned(GitLabFetch(req.outcome))

CallBitbucketFetch ==
    /\ pc = "fetch" /\ req.provider = "Bitbucket"
    /\ Returned(BitbucketFetch(req.outcome))

NextFetch == CallGitHubFetch \/ CallGitLabFetch \/ CallBitbucketFetch

SpecFetch == InitFetch /\ [][NextFetch]_vars

\* What the caller reads through its records in the current state.
Result == Deep(stats, mapHeap, arrHeap)
Primary == Deep(primary, mapHeap, arrHeap)
Secondary == Deep(secondary, mapHeap, arrHeap)

\* ------------------------------------------------------------ properties
Called == pc # "start"
ArgLangsA == pre.primary.Activity.TopLanguages
ArgLangsB == pre.secondary.Activity.TopLanguages
ResLangs == Result.Activity.TopLanguages
ArgMapA == pre.primary.Activity.ContributionsPerDay
ArgMapB == pre.secondary.Activity.ContributionsPerDay
ResMap == Result.Activity.ContributionsPerDay

NamesOf(l) == {l[i].Name : i \in 1..Len(l)}

\* The sum of the percentages the list l gives the language nm (0 if none).
RECURSIVE PctOf(_, _)
PctOf(l, nm) ==
    IF l = <<>> THEN Whole(0)
    ELSE IF Head(l).Name = nm
         THEN RatAdd(Head(l).Percentage, PctOf(Tail(l), nm))
         ELSE PctOf(Tail(l), nm)

\* The total of the summed percentages of the two argument lists.
ArgTotal == RatAdd(SumPercentages(ArgLangsA), SumPercentages(ArgLangsB))

\* C1: after MergeStats, if either argument had a non-empty TopLanguages
\* list the percentages of the merged list sum to 100, and if both were
\* empty the merged list is empty.
C1_PercentagesSumTo100 ==
    Called =>
        /\ (ArgLangsA # <<>> \/ ArgLangsB # <<>>) =>
              (ResLangs # <<>> /\ SumPercentages(ResLangs) = Whole(100))
        /\ (ArgLangsA = <<>> /\ ArgLangsB = <<>>) => ResLangs = <<>>

\* Two non-empty lists sharing a language were merged and renormalized.
C1_Witness ==
    /\ pc = "merged"
    /\ ArgLangsA # <<>> /\ ArgLangsB # <<>>
    /\ NamesOf(ArgLangsA) \cap NamesOf(ArgLangsB) # {}
    /\ Len(ResLangs) = 2
    /\ ArgTotal = Whole(200)

\* C2: every language of either argument list has exactly one merged entry,
\* whose percentage is the sum of its percentages in the two lists divided
\* by the total of all sums, times 100; no other language is in the result.
C2_MergedByName ==
    Called =>
        /\ NamesOf(ResLangs) = NamesOf(ArgLangsA) \cup NamesOf(ArgLangsB)
        /\ \A nm \in NamesOf(ArgLangsA) \cup NamesOf(ArgLangsB) :
              /\ Cardinality({i \in 1..Len(ResLangs) : ResLangs[i].Name = nm}) = 1
              /\ \A i \in 1..Len(ResLangs) :
                    ResLangs[i].Name = nm =>
                        ResLangs[i].Percentage =
                            RatShare(RatAdd(PctOf(ArgLangsA, nm), PctOf(ArgLangsB, nm)),
                                     ArgTotal)

\* The scenario [{Go,100}] merged with [{Go,50},{Rust,50}]: Go 75, Rust 25.
C2_Witness ==
    /\ pc = "merged"
    /\ Len(ArgLangsA) = 1 /\ Len(ArgLangsB) = 2
    /\ PctOf(ArgLangsA, "Go") = Whole(100)
    /\ PctOf(ArgLangsB, "Go") = Whole(50) /\ PctOf(ArgLangsB, "Rust") = Whole(50)
    /\ Len(ResLangs) = 2
    /\ ResLangs[1].Name = "Go" /\ ResLangs[1].Percentage = Whole(75)
    /\ ResLangs[2].Name = "Rust" /\ ResLangs[2].Percentage = Whole(25)

\* C3: after MergeStats, Totals.TotalLanguages of the result is the number
\* of entries of its TopLanguages list.
C3_TotalLanguagesIsLen ==
    Called => Result.Totals.TotalLanguages = Len(ResLangs)

\* A language in both lists: the count is below the sum of the inputs' counts.
C3_Witness ==
    /\ pc = "merged"
    /\ NamesOf(ArgLangsA) \cap NamesOf(ArgLangsB) # {}
    /\ Result.Totals.TotalLanguages <
          pre.primary.Totals.TotalLanguages + pre.secondary.Totals.TotalLanguages

\* C4 as stated: when the total of the summed percentages is 0, the merged
\* TopLanguages list is empty.
C4_ZeroTotalGivesEmpty ==
    (Called /\ ArgTotal = Whole(0)) => ResLangs = <<>>

\* C4 amended: when the total of the summed percentages is 0 nothing is
\* divided: the merged list has one entry per language of either list, each
\* with percentage 0, and is empty only if both lists are empty.
C4_ZeroTotalKeepsEntries ==
    (Called /\ ArgTotal = Whole(0)) =>
        /\ NamesOf(ResLangs) = NamesOf(ArgLangsA) \cup NamesOf(ArgLangsB)
        /\ Len(ResLangs) = Cardinality(NamesOf(ResLangs))
        /\ \A i \in 1..Len(ResLangs) : ResLangs[i].Percentage = Whole(0)
        /\ (ResLangs = <<>> <=> (ArgLangsA = <<>> /\ ArgLangsB = <<>>))

\* Two non-empty lists whose percentages are all 0 were merged.
C4_Witness ==
    /\ pc = "merged"
    /\ ArgLangsA # <<>> /\ ArgLangsB # <<>>
    /\ ArgTotal = Whole(0)
    /\ Len(ResLangs) = 2

\* The color the list l gives the language nm ("" if none).
ColorIn(l, nm) ==
    IF \E i \in 1..Len(l) : l[i].Name = nm
    THEN l[CHOOSE i \in 1..Len(l) : l[i].Name = nm].Color
    ELSE ""

\* C5: a merged language carries the color of the one argument list that
\* gives it a non-empty color, and the fallback color when neither does.
C5_ColorPreservedOrFallback ==
    Called =>
        \A i \in 1..Len(ResLangs) :
            LET ca == ColorIn(ArgLangsA, ResLangs[i].Name)
                cb == ColorIn(ArgLangsB, ResLangs[i].Name)
            IN /\ (ca # "" /\ cb = "") => ResLangs[i].Color = ca
               /\ (ca = "" /\ cb # "") => ResLangs[i].Color = cb
               /\ (ca = "" /\ cb = "") => ResLangs[i].Color = FallbackColor

\* The count the map c gives the instant d (0 if it is not a key).
CountAt(c, d) == IF d \in DOMAIN c.m THEN c.m[d] ELSE 0

\* C6: the keys of the merged ContributionsPerDay map are the keys of either
\* argument map, and each key's count is the sum of its counts in the two.
C6_ContributionsUnion ==
    Called =>
        /\ DOMAIN ResMap.m = (DOMAIN ArgMapA.m) \cup (DOMAIN ArgMapB.m)
        /\ \A d \in DOMAIN ResMap.m :
              ResMap.m[d] = CountAt(ArgMapA, d) + CountAt(ArgMapB, d)

\* A day both maps count, and a day only one of them has.
C6_Witness ==
    /\ pc = "merged"
    /\ \E d \in (DOMAIN ArgMapA.m) \cap (DOMAIN ArgMapB.m) :
          ArgMapA.m[d] > 0 /\ ArgMapB.m[d] > 0 /\ ResMap.m[d] = 2
    /\ (DOMAIN ArgMapA.m) \ (DOMAIN ArgMapB.m) # {}

\* C7 as stated: if neither argument map has a key, the merged map is nil.
C7_NoKeysGivesNil ==
    (Called /\ DOMAIN ArgMapA.m = {} /\ DOMAIN ArgMapB.m = {}) => ~ResMap.present

\* C7 amended: the merged map is nil exactly when both argument maps are
\* nil; a present argument map, even one without keys, makes it present.
C7_NilIffBothNil ==
    Called => (ResMap.present <=> (ArgMapA.present \/ ArgMapB.present))

\* Two nil maps were merged and the merged map is nil.
C7_Witness ==
    /\ pc = "merged"
    /\ ~ArgMapA.present /\ ~ArgMapB.present
    /\ ~ResMap.present

\* C8: MergeStats leaves its arguments as they were: what the caller reads
\* through primary and secondary is what it read before the call,
\* so a second call on the same records returns the same map, handles and
\* counters as the first.
C8_ArgumentsUntouched ==
    /\ Called => (Primary = orig.primary /\ Secondary = orig.secondary)
    /\ pc = "again" =>
          /\ ResMap = first.Activity.ContributionsPerDay
          /\ Result.Identity = first.Identity
          /\ Result.Activity.Issues = first.Activity.Issues
          /\ Result.Activity.PullRequests = first.Activity.PullRequests

\* C9: the Handles of the result are the primary's followed by the
\* secondary's, and Name, Username, Avatar and JoinedAgo are the primary's.
C9_HandlesAndIdentity ==
    Called =>
        /\ Result.Identity.Handles =
              pre.primary.Identity.Handles \o pre.secondary.Identity.Handles
        /\ Result.Identity.Name = pre.primary.Identity.Name
        /\ Result.Identity.Username = pre.primary.Identity.Username
        /\ Result.Identity.Avatar = pre.primary.Identity.Avatar
        /\ Result.Totals.JoinedAgo = pre.primary.Totals.JoinedAgo

\* The same handle on both sides stays twice, and the secondary has
\* another name.
C9_Witness ==
    /\ pc = "folded"
    /\ Len(Result.Identity.Handles) = 3
    /\ Result.Identity.Handles[1] = Result.Identity.Handles[2]
    /\ pre.secondary.Identity.Name # pre.primary.Identity.Name
    /\ pre.secondary.Identity.Name # ""

Counters(v) ==
    <<v.Totals.PublicRepos, v.Totals.PrivateRepos, v.Totals.Stars,
      v.Totals.Followers, v.Totals.Following, v.Totals.ContributedRepos,
      v.Totals.Commits, v.Activity.Issues.Open, v.Activity.Issues.Closed,
      v.Activity.PullRequests.Open, v.Activity.PullRequests.Merged,
      v.Activity.PullRequests.Closed>>

\* C10: every counter of the result is the sum of the two arguments'
\* counters, and after the fold MergeStats(MergeStats(A, B), C) it is the
\* sum over A, B and C.
C10_CountersSummed ==
    /\ Called =>
          \A k \in 1..Len(Counters(Result)) :
              Counters(Result)[k] =
                  Counters(pre.primary)[k] + Counters(pre.secondary)[k]
    /\ pc = "folded" =>
          \A k \in 1..Len(Counters(Result)) :
              Counters(Result)[k] =
                  Counters(orig.primary)[k] + Counters(orig.secondary)[k]
                  + Counters(pre.secondary)[k]

\* Three records with non-zero counters were folded.
C10_Witness ==
    /\ pc = "folded"
    /\ orig.primary.Totals.Stars > 0
    /\ orig.secondary.Totals.Stars > 0
    /\ pre.secondary.Totals.Stars > 0
    /\ orig.secondary.Totals.Stars # orig.primary.Totals.Stars
    /\ Result.Totals.Stars > pre.primary.Totals.Stars

\* C11: after MergeStats, CurrentStreak and LongestStreak of the result are
\* ComputeStreaks of the merged ContributionsPerDay map at the time of the
\* call, whatever streaks the two arguments carried.
C11_StreaksRecomputed ==
    Called =>
        LET res == Result
            st == ComputeStreaks(res.Activity.ContributionsPerDay.m, now)
        IN /\ res.Totals.CurrentStreak = st.current
           /\ res.Totals.LongestStreak = st.longest

\* The primary carried streaks 4 and 9 and no contribution today; the
\* merged map has one, from the secondary, and the result's streaks are 1.
C11_Witness ==
    /\ pc = "merged"
    /\ pre.primary.Totals.CurrentStreak = 4
    /\ pre.primary.Totals.LongestStreak = 9
    /\ ComputeStreaks(ArgMapA.m, now).current = 0
    /\ Result.Totals.CurrentStreak = 1
    /\ Result.Totals.LongestStreak = 1

\* C15: the merged TopLanguages list is in descending order of percentage.
C15_LanguagesDescending ==
    Called => Descending(ResLangs)

\* The primary's leading language comes out second.
C15_Witness ==
    /\ pc = "merged"
    /\ Len(ArgLangsA) = 2 /\ Len(ResLangs) = 2
    /\ ResLangs[1].Name = ArgLangsA[2].Name
    /\ RatGt(ArgLangsA[1].Percentage, ArgLangsA[2].Percentage)
    /\ RatGt(ResLangs[1].Percentage, ResLangs[2].Percentage)

\* The secondary of the last call was all-zero/empty: every counter 0, no
\* language, no contribution key.
EmptySecondary ==
    /\ \A k \in 1..Len(Counters(pre.secondary)) : Counters(pre.secondary)[k] = 0
    /\ pre.secondary.Totals.TotalLanguages = 0
    /\ pre.secondary.Totals.CurrentStreak = 0
    /\ pre.secondary.Totals.LongestStreak = 0
    /\ ArgLangsB = <<>>
    /\ DOMAIN ArgMapB.m = {}

IdentityKept ==
    /\ Result.Identity.Name = pre.primary.Identity.Name
    /\ Result.Identity.Username = pre.primary.Identity.Username
    /\ Result.Identity.Avatar = pre.primary.Identity.Avatar

\* C12 as stated: merging with an all-zero/empty secondary leaves the
\* primary's name, username and avatar and every numeric total unchanged.
C12_EmptySecondaryKeepsTotals ==
    (Called /\ EmptySecondary) =>
        /\ IdentityKept
        /\ Counters(Result) = Counters(pre.primary)
        /\ Result.Totals.TotalLanguages = pre.primary.Totals.TotalLanguages
        /\ Result.Totals.CurrentStreak = pre.primary.Totals.CurrentStreak
        /\ Result.Totals.LongestStreak = pre.primary.Totals.LongestStreak

\* C12 amended: merging with an all-zero/empty secondary leaves the
\* primary's name, username and avatar and every summed counter unchanged
\* and appends the secondary's handles; TotalLanguages becomes the number of
\* languages of the primary's list and the streaks are those of the
\* primary's contribution map at the time of the call.
C12_EmptySecondaryKeepsSums ==
    (Called /\ EmptySecondary) =>
        /\ IdentityKept
        /\ Counters(Result) = Counters(pre.primary)
        /\ Result.Identity.Handles =
              pre.primary.Identity.Handles \o pre.secondary.Identity.Handles
        /\ Result.Totals.TotalLanguages = Cardinality(NamesOf(ArgLangsA))
        /\ Result.Totals.CurrentStreak = ComputeStreaks(ArgMapA.m, now).current
        /\ Result.Totals.LongestStreak = ComputeStreaks(ArgMapA.m, now).longest

\* A record as GitLab's Fetch returns it, one language and a count of 0,
\* was merged with the zero record: its counters stay and the count is 1.
C12_Witness ==
    /\ pc = "merged"
    /\ EmptySecondary
    /\ pre.primary.Totals.Stars > 0
    /\ Len(ArgLangsA) = 1
    /\ pre.primary.Totals.TotalLanguages = 0
    /\ Result.Totals.TotalLanguages = 1
    /\ Result.Totals.CurrentStreak = pre.primary.Totals.CurrentStreak

Day(k) == k * TicksPerDay

\* The counts of the keys of contribs falling on the day number k, summed
\* instant by instant.
RECURSIVE DayTotalFrom(_, _)
DayTotalFrom(k, i) ==
    IF i = TicksPerDay THEN 0
    ELSE (IF Day(k) + i \in DOMAIN contribs THEN contribs[Day(k) + i] ELSE 0)
         + DayTotalFrom(k, i + 1)

Qualifies(k) == k \in 0..MaxDay /\ DayTotalFrom(k, 0) > 0

TodayNo == now \div TicksPerDay

\* The number of consecutive qualifying days walking back from today.
CurrentStreakOf ==
    CHOOSE n \in 0..(MaxDay + 1) :
        /\ \A i \in 0..(n - 1) : Qualifies(TodayNo - i)
        /\ ~Qualifies(TodayNo - n)

\* The lengths of the runs of consecutive qualifying days.
RunLengths ==
    {n \in 1..(MaxDay + 1) :
        \E k \in 0..MaxDay : \A i \in 0..(n - 1) : Qualifies(k + i)}

LongestStreakOf ==
    IF RunLengths = {} THEN 0
    ELSE CHOOSE n \in RunLengths : \A m \in RunLengths : m <= n

Computed == pc = "computed"

\* The map with count 1 at the first instant of each day of days.
OnesOn(days) == [t \in {Day(k) : k \in days} |-> 1]

\* C13: the current streak ComputeStreaks returns is the number of
\* consecutive days, walking back from today, whose summed count is > 0; so
\* {} gives (0,0), {today:1} gives (1,1) and {today-2,today-1,today:1}
\* gives (3,3).
C13_CurrentStreak ==
    Computed =>
        /\ streak.current = CurrentStreakOf
        /\ contribs = EmptyMap => streak = [current |-> 0, longest |-> 0]
        /\ contribs = OnesOn({TodayNo}) => streak = [current |-> 1, longest |-> 1]
        /\ contribs = OnesOn({TodayNo - 2, TodayNo - 1, TodayNo})
              => streak = [current |-> 3, longest |-> 3]

\* Today and yesterday count, yesterday's key being later than midnight; the
\* day before them is present with count 0 and stops the walk.
C13_Witness ==
    /\ Computed
    /\ streak.current = 2
    /\ \E t \in DOMAIN contribs : contribs[t] = 0 /\ DateOf(t) = Day(TodayNo - 2)
    /\ \E t \in DOMAIN contribs : DateOf(t) = Day(TodayNo - 1) /\ t # DateOf(t)

\* C14: the longest streak ComputeStreaks returns is the length of the
\* longest run of consecutive days whose summed count is > 0, 0 if there is
\* none; so {today-5:1, today-3:1} gives (0,1).
C14_LongestStreak ==
    Computed =>
        /\ streak.longest = LongestStreakOf
        /\ contribs = OnesOn({TodayNo - 5, TodayNo - 3})
              => streak = [current |-> 0, longest |-> 1]

\* Two qualifying days with a day present with count 0 between them: the
\* longest streak is 1.
C14_Witness ==
    /\ Computed
    /\ streak.longest = 1
    /\ \E k \in 0..MaxDay :
          /\ Qualifies(k) /\ Qualifies(k + 2)
          /\ Day(k + 1) \in DOMAIN contribs /\ contribs[Day(k + 1)] = 0

\* C19: whatever the map, ComputeStreaks returns 0 <= current <= longest.
C19_CurrentAtMostLongest ==
    Computed => (0 <= streak.current /\ streak.current <= streak.longest)

\* The run through today goes on into the future day, which has two keys,
\* one of them with count 0.
C19_Witness ==
    /\ Computed
    /\ streak.current = 1
    /\ streak.longest = 2
    /\ \E t \in DOMAIN contribs : DateOf(t) > DateOf(now) /\ contribs[t] <= 0
    /\ \E t, u \in DOMAIN contribs : t # u /\ DateOf(t) = DateOf(u)

\* ------------------------------------------------------ properties of main
\* MergeStats(a, b) at instant t by value: the records it may return when a
\* and b share nothing with any other record.
MergeValues(a, b, t) ==
    LET aa == Alloc(a, <<>>, <<>>)
        ab == Alloc(b, aa.mh, aa.ah)
    IN {Deep(r.rec, r.mh, r.ah) :
           r \in {MergeStats(aa.rec, ab.rec, ab.mh, ab.ah, t, lr) :
                     lr \in LanguageReturns(aa.rec, ab.rec)}}

\* The left fold of MergeStats over acc and the records of recs, the k-th
\* call made at instant ts[k].
RECURSIVE FoldValues(_, _, _)
FoldValues(acc, recs, ts) ==
    IF recs = <<>> THEN {acc}
    ELSE UNION {FoldValues(m, Tail(recs), Tail(ts)) :
                   m \in MergeValues(acc, Head(recs).rec, Head(ts))}

FetchedNames == [i \in 1..Len(fetched) |-> fetched[i].name]
CallNames == [i \in 1..Len(calls) |-> calls[i].name]
CallTimes == [i \in 1..Len(calls) |-> calls[i].now]

LogHas(level, subject) == \E i \in 1..Len(log) : log[i] = <<level, subject>>

\* C16: the record handed to RenderSVG is the left fold of MergeStats over
\* the GitHub record and then, Bitbucket before GitLab, the records of the
\* secondaries whose Fetch succeeded; MergeStats is called for those
\* secondaries and for no other.
C16_RenderedIsLeftFold ==
    /\ \A i \in 1..Len(log) :
          log[i][1] \in {"warning", "info"} =>
              \A k \in 1..Len(calls) : calls[k].name # log[i][2]
    /\ fetched # <<>> =>
          /\ FetchedNames \in {<<"GitHub">>, <<"GitHub", "Bitbucket">>,
                               <<"GitHub", "GitLab">>,
                               <<"GitHub", "Bitbucket", "GitLab">>}
          /\ CallNames = Tail(FetchedNames)
    /\ rendered # <<>> =>
          rendered[1] \in FoldValues(fetched[1].rec, Tail(fetched), CallTimes)

\* Both secondaries were merged: the rendered record has the handles of the
\* three providers, the repositories of all three and languages of two.
C16_Witness ==
    /\ rendered # <<>>
    /\ CallNames = <<"Bitbucket", "GitLab">>
    /\ Len(rendered[1].Identity.Handles) = 3
    /\ rendered[1].Totals.PublicRepos =
          fetched[1].rec.Totals.PublicRepos + fetched[2].rec.Totals.PublicRepos
          + fetched[3].rec.Totals.PublicRepos
    /\ fetched[2].rec.Totals.PublicRepos > 0
    /\ Len(fetched[1].rec.Activity.TopLanguages) = 2
    /\ Len(fetched[3].rec.Activity.TopLanguages) = 1
    /\ Len(rendered[1].Activity.TopLanguages) = 2

\* C17: a failed GitHub Fetch or RenderSVG ends main with a non-zero status
\* and no output file, a failed write ends it with a non-zero status, and a
\* failed Bitbucket or GitLab Fetch is logged as a warning and never ends
\* the run: main exits non-zero only for a missing -user flag or one of the
\* three fatal failures, and exits 0 only with the file written.
C17_ExitBehaviour ==
    /\ (LogHas("fatal", "GitHub") \/ LogHas("fatal", "render")) =>
          (pc = "exited" /\ exit = 1 /\ file = NoFile)
    /\ LogHas("fatal", "write") => (pc = "exited" /\ exit = 1)
    /\ ~LogHas("fatal", "Bitbucket") /\ ~LogHas("fatal", "GitLab")
    /\ exit = 1 =>
          /\ pc = "exited"
          /\ log[Len(log)] \in {<<"fatal", "-user">>, <<"fatal", "GitHub">>,
                                <<"fatal", "render">>, <<"fatal", "write">>}
    /\ exit = 0 =>
          (pc = "exited" /\ file.state = "written" /\ file.of = rendered
           /\ rendered # <<>>)
    /\ pc = "exited" => exit \in {0, 1}

\* Both secondary Fetch calls failed and the run ended with status 0 and
\* the GitHub record rendered and written.
C17_Witness ==
    /\ pc = "exited" /\ exit = 0
    /\ LogHas("warning", "Bitbucket") /\ LogHas("warning", "GitLab")
    /\ file.state = "written"
    /\ file.of = <<fetched[1].rec>>

\* ----------------------------------------------------- properties of Fetch
\* The requests the call made that did not end with a 2xx answer.
FailedRequests == {r \in ret.made : req.outcome[r] # "ok"}

\* The account request and the repository or project listing.
MainRequests == {"user", "repos", "projects"}

C21_PrintedAreMerged ==
    (pc = "exited" /\ exit = 0) =>
        /\ printed = FetchedNames
        /\ printed = <<"GitHub">> \o CallNames

====
